---- MODULE Spec2Model ----
(***************************************************************************)
(* MobileNetV2 with quantization-aware convolutions                         *)
(* (lbq-v1/models/mobilenetv2.py): the channel rounder, the layer           *)
(* constructors, the network builder and the forward pass, as a state       *)
(* machine over the builder's locals, the built module tree and the tensor  *)
(* flowing through it.                                                      *)
(*                                                                          *)
(* A tensor is abstracted to its shape and one scalar standing for its      *)
(* content: [shape |-> <<N, C, H, W>>, v |-> content].  Real-valued channel *)
(* targets are carried in tenths (v10 = 10 * v).                            *)
(***************************************************************************)
EXTENDS Integers, Sequences, FiniteSets, TLC

VARIABLES
    pc,             \* position of the program
    num_classes,    \* MobileNetV2.__init__ arguments
    is_qt,
    lq,
    fwlq,
    input_channel,  \* locals of MobileNetV2.__init__
    output_channel,
    layers,
    row,            \* index of the current row of self.cfgs (1-based)
    i,              \* index of the current repeat within the row (0-based)
    conv,           \* self.conv (head)
    avgpool,        \* self.avgpool
    classifier,     \* self.classifier
    arg,            \* the argument of the forward call
    x,              \* the tensor flowing through forward
    xin,            \* argument of the last layer call
    out,            \* local `out` of the last InvertedResidual.forward
    und,            \* values bound to `_` by the last layer call
    blockRet,       \* value returned by the last InvertedResidual.forward
    ret,            \* value returned by MobileNetV2.forward
    k,              \* index of the next module of self.features
    sig,            \* quantization discrepancy of the weights in this call
    wt,             \* the scalar standing for the weights in this call
    mk              \* a call of _make_divisible: arguments and result

vars == <<pc, num_classes, is_qt, lq, fwlq, input_channel, output_channel,
          layers, row, i, conv, avgpool, classifier, arg, x, xin, out,
          und, blockRet, ret, k, sig, wt, mk>>

----------------------------------------------------------------------------
(* Bounds of the model *)

MaxV10 == 12800      \* _make_divisible is tried on v = 0.1 .. MaxV10/10
MaxBatch == 1        \* batch size N ranges over 1..MaxBatch
MaxH == 3            \* input height/width range over 1..MaxH and 224
MaxW == 1            \* the scalar standing for the weights, 0..MaxW

DefaultClasses == 1000

\* num_classes: the default and a small head
NumClassesSet == {10, DefaultClasses}
\* input sizes: small ones and the 224 of the reference input
SizeSet == (1..MaxH) \cup {224}
\* quantization discrepancy of the weights: absent or present
SigSet == {0, 1}

None == 0 - 1

Max(a, b) == IF a >= b THEN a ELSE b
Min(a, b) == IF a <= b THEN a ELSE b

----------------------------------------------------------------------------
(* Channel rounder *)

\* _make_divisible without the 10% correction
_make_divisible_nofix(v10, divisor, min_value) ==
    LET mv == IF min_value = None THEN divisor ELSE min_value
    IN  Max(mv, (((v10 + 5 * divisor) \div 10) \div divisor) * divisor)

\* v is given in tenths: v = v10 / 10.  divisor / 2 is 5 * divisor tenths,
\* int() truncates a positive float, and new_v < 0.9 * v is
\* 100 * new_v < 9 * v10.  The integer form agrees with the floating-point
\* one: a non-integer v10 / 10 lies at least 0.1 from an integer, and
\* 100 * new_v and 9 * v10 are never equal for a multiple of 4.
_make_divisible(v10, divisor, min_value) ==
    LET mv == IF min_value = None THEN divisor ELSE min_value
        new_v == Max(mv, (((v10 + 5 * divisor) \div 10) \div divisor) * divisor)
    IN  IF 100 * new_v < 9 * v10 THEN new_v + divisor ELSE new_v

----------------------------------------------------------------------------
(* Modules of the tensor runtime and the quantization-aware primitive *)

Conv2d(inp, oup, kernel_size, stride, padding, groups) ==
    [type |-> "Conv2d", in_channels |-> inp, out_channels |-> oup,
     kernel_size |-> kernel_size, stride |-> stride, padding |-> padding,
     groups |-> groups]

LQ_Conv2d(inp, oup, kernel_size, stride, padding, groups, qt, l, fw) ==
    [type |-> "LQ_Conv2d", in_channels |-> inp, out_channels |-> oup,
     kernel_size |-> kernel_size, stride |-> stride, padding |-> padding,
     groups |-> groups, is_qt |-> qt, lq |-> l, fwlq |-> fw]

BatchNorm2d(n) == [type |-> "BatchNorm2d", num_features |-> n]

ReLU6 == [type |-> "ReLU6"]

Sequential(mods) == [type |-> "Sequential", mods |-> mods]

AdaptiveAvgPool2d(h, w) == [type |-> "AdaptiveAvgPool2d", output_size |-> <<h, w>>]

Linear(inf, outf) == [type |-> "Linear", in_features |-> inf, out_features |-> outf]

----------------------------------------------------------------------------
(* Layer constructors *)

\* conv_3x3_bn building its convolution from the quantization flags
conv_3x3_bn_quant(inp, oup, stride, qt, l, fw) ==
    Sequential(<<LQ_Conv2d(inp, oup, 3, stride, 1, 1, qt, l, fw),
                 BatchNorm2d(oup), ReLU6>>)

\* conv_3x3_bn with an unpadded convolution
conv_3x3_bn_nopad(inp, oup, stride, qt, l, fw) ==
    Sequential(<<Conv2d(inp, oup, 3, stride, 0, 1), BatchNorm2d(oup), ReLU6>>)

\* the flags are accepted and not used
conv_3x3_bn(inp, oup, stride, qt, l, fw) ==
    Sequential(<<Conv2d(inp, oup, 3, stride, 1, 1), BatchNorm2d(oup), ReLU6>>)

\* conv_1x1_bn handing its flags on in the order of its own parameters
conv_1x1_bn_permuted(inp, oup, l, qt, fw) ==
    Sequential(<<LQ_Conv2d(inp, oup, 1, 1, 0, 1, l, qt, fw),
                 BatchNorm2d(oup), ReLU6>>)

\* parameters in the order of the def: (inp, oup, lq, is_qt, fwlq)
conv_1x1_bn(inp, oup, l, qt, fw) ==
    Sequential(<<LQ_Conv2d(inp, oup, 1, 1, 0, 1, qt, l, fw),
                 BatchNorm2d(oup), ReLU6>>)

\* the construction check of a block, also rejecting is_qt together with lq
InvertedResidual_assert_flags(inp, oup, stride, expand_ratio, qt, l, fw) ==
    stride \in {1, 2} /\ ~(qt /\ l)

\* the assertion of InvertedResidual.__init__
InvertedResidual_assert(inp, oup, stride, expand_ratio, qt, l, fw) ==
    stride \in {1, 2}

\* identity decided by the stride alone
identity_stride_only(inp, oup, stride) == stride = 1

identity(inp, oup, stride) == stride = 1 /\ inp = oup

\* the depthwise convolution of the expanded layout sized by inp
InvertedResidual_dw_inp(inp, oup, stride, expand_ratio, qt, l, fw) ==
    LET hidden_dim == inp * expand_ratio
    IN  [type |-> "InvertedResidual",
         identity |-> identity(inp, oup, stride),
         expand_ratio |-> expand_ratio,
         conv |-> IF expand_ratio = 1
                  THEN <<LQ_Conv2d(inp, hidden_dim, 3, stride, 1, hidden_dim, qt, l, fw),
                         BatchNorm2d(hidden_dim), ReLU6,
                         LQ_Conv2d(hidden_dim, oup, 1, 1, 0, 1, qt, l, fw),
                         BatchNorm2d(oup)>>
                  ELSE <<LQ_Conv2d(inp, hidden_dim, 1, 1, 0, 1, qt, l, fw),
                         BatchNorm2d(hidden_dim), ReLU6,
                         LQ_Conv2d(inp, hidden_dim, 3, stride, 1, hidden_dim, qt, l, fw),
                         BatchNorm2d(hidden_dim), ReLU6,
                         LQ_Conv2d(hidden_dim, oup, 1, 1, 0, 1, qt, l, fw),
                         BatchNorm2d(oup)>>]

\* hidden_dim = round(inp * expand_ratio), a product of integers
InvertedResidual(inp, oup, stride, expand_ratio, qt, l, fw) ==
    LET hidden_dim == inp * expand_ratio
    IN  [type |-> "InvertedResidual",
         identity |-> identity(inp, oup, stride),
         expand_ratio |-> expand_ratio,
         conv |-> IF expand_ratio = 1
                  THEN <<LQ_Conv2d(inp, hidden_dim, 3, stride, 1, hidden_dim, qt, l, fw),
                         BatchNorm2d(hidden_dim), ReLU6,
                         LQ_Conv2d(hidden_dim, oup, 1, 1, 0, 1, qt, l, fw),
                         BatchNorm2d(oup)>>
                  ELSE <<LQ_Conv2d(inp, hidden_dim, 1, 1, 0, 1, qt, l, fw),
                         BatchNorm2d(hidden_dim), ReLU6,
                         LQ_Conv2d(hidden_dim, hidden_dim, 3, stride, 1, hidden_dim, qt, l, fw),
                         BatchNorm2d(hidden_dim), ReLU6,
                         LQ_Conv2d(hidden_dim, oup, 1, 1, 0, 1, qt, l, fw),
                         BatchNorm2d(oup)>>]

----------------------------------------------------------------------------
(* The stage table and the builder's arithmetic *)

cfgs == << <<1, 16, 1, 1>>,
           <<6, 24, 2, 2>>,
           <<6, 32, 3, 2>>,
           <<6, 64, 4, 2>>,
           <<6, 96, 3, 1>>,
           <<6, 160, 3, 2>>,
           <<6, 320, 1, 1>> >>

\* width_mult = 1, in tenths
width_mult10 == 10

\* 4 if width_mult == 0.1 else 8
divisor_of_width == IF width_mult10 = 1 THEN 4 ELSE 8

\* every block of a row built with the row's stride
block_stride_all(s, j) == s

\* s if i == 0 else 1
block_stride(s, j) == IF j = 0 THEN s ELSE 1

\* _make_divisible(1280 * width_mult, ...) if width_mult > 1.0 else 1280
last_channel ==
    IF width_mult10 > 10
    THEN _make_divisible(1280 * width_mult10, divisor_of_width, None)
    ELSE 1280

----------------------------------------------------------------------------
(* Forward semantics of the modules *)

T(shape, v) == [shape |-> shape, v |-> v]

NoTensor == T(<<>>, 0)

\* the outcome of a call that raised a shape error
Raised == T(<<0>>, 0)

NoModule == [type |-> "None"]

\* output size of a convolution along one spatial dimension
ConvOut(h, kernel_size, stride, padding) ==
    (h + 2 * padding - kernel_size) \div stride + 1

\* a convolution: w is the scalar standing for the weights
conv_forward(m, t, w) ==
    IF \/ Len(t.shape) # 4
       \/ t.shape[2] # m.in_channels
       \/ m.in_channels % m.groups # 0
       \/ m.out_channels % m.groups # 0
       \/ t.shape[3] + 2 * m.padding < m.kernel_size
       \/ t.shape[4] + 2 * m.padding < m.kernel_size
    THEN Raised
    ELSE T(<<t.shape[1], m.out_channels,
             ConvOut(t.shape[3], m.kernel_size, m.stride, m.padding),
             ConvOut(t.shape[4], m.kernel_size, m.stride, m.padding)>>,
           w * t.v)

\* the behaviour mode of a primitive; is_qt takes precedence over lq
Mode(m) ==
    IF m.is_qt THEN "QuantTest"
    ELSE IF m.lq THEN "LearnedQuant"
    ELSE "Plain"

\* the auxiliary signal of one invocation of a primitive
AuxSignal(m, s) ==
    CASE Mode(m) = "Plain" -> 0
      [] Mode(m) = "QuantTest" -> s
      [] Mode(m) = "LearnedQuant" -> s + 1

\* LQ_Conv2d.forward returns the pair (output tensor, auxiliary signal)
LQ_Conv2d_forward(m, t, w, s) == <<conv_forward(m, t, w), AuxSignal(m, s)>>

BatchNorm2d_forward(m, t) ==
    IF Len(t.shape) # 4 \/ t.shape[2] # m.num_features THEN Raised ELSE t

ReLU6_forward(t) ==
    IF t = Raised THEN Raised ELSE T(t.shape, Min(6, Max(0, t.v)))

\* forward of a module that returns a tensor
Module_forward(m, t, w) ==
    CASE m.type = "Conv2d" -> conv_forward(m, t, w)
      [] m.type = "BatchNorm2d" -> BatchNorm2d_forward(m, t)
      [] m.type = "ReLU6" -> ReLU6_forward(t)

RECURSIVE Sequential_forward(_, _, _)
Sequential_forward(mods, t, w) ==
    IF mods = <<>> THEN t
    ELSE Sequential_forward(Tail(mods), Module_forward(Head(mods), t, w), w)

Broadcastable(a, b) ==
    /\ Len(a) = Len(b)
    /\ \A d \in 1..Len(a) : a[d] = b[d] \/ a[d] = 1 \/ b[d] = 1

\* elementwise addition of two tensors
Add(a, b) ==
    IF a = Raised \/ b = Raised \/ ~Broadcastable(a.shape, b.shape) THEN Raised
    ELSE T([d \in 1..Len(a.shape) |-> Max(a.shape[d], b.shape[d])], a.v + b.v)

RECURSIVE SumSeq(_)
SumSeq(q) == IF q = <<>> THEN 0 ELSE Head(q) + SumSeq(Tail(q))

\* the intermediate values of InvertedResidual.forward:
\* out is the local `out`, und the values bound to `_`
InvertedResidual_body(self, t, w, s) ==
    LET c == self.conv
    IN  IF self.expand_ratio = 1
        THEN LET r0 == LQ_Conv2d_forward(c[1], t, w, s)
                 o1 == Sequential_forward(SubSeq(c, 2, 3), r0[1], 1)
                 r3 == LQ_Conv2d_forward(c[4], o1, w, s)
                 o4 == Module_forward(c[5], r3[1], 1)
             IN  [out |-> o4, und |-> <<r0[2], r3[2]>>]
        ELSE LET r0 == LQ_Conv2d_forward(c[1], t, w, s)
                 o1 == Sequential_forward(SubSeq(c, 2, 3), r0[1], 1)
                 r3 == LQ_Conv2d_forward(c[4], o1, w, s)
                 o4 == Sequential_forward(SubSeq(c, 5, 6), r3[1], 1)
                 r6 == LQ_Conv2d_forward(c[7], o4, w, s)
             IN  [out |-> r6[1], und |-> <<r0[2], r3[2], r6[2]>>]

\* a block returning its tensor together with the sum of its primitives' signals
InvertedResidual_forward_carry(self, t, w, s) ==
    LET b == InvertedResidual_body(self, t, w, s)
    IN  IF self.identity THEN <<Add(t, b.out), SumSeq(b.und)>>
        ELSE <<b.out, SumSeq(b.und)>>

\* the value returned by InvertedResidual.forward, as the tuple of its components
InvertedResidual_forward(self, t, w, s) ==
    LET b == InvertedResidual_body(self, t, w, s)
    IN  IF self.identity THEN <<Add(t, b.out)>> ELSE <<b.out>>

AdaptiveAvgPool2d_forward(m, t) ==
    IF Len(t.shape) # 4 THEN Raised
    ELSE T(<<t.shape[1], t.shape[2], m.output_size[1], m.output_size[2]>>, t.v)

\* x.view(x.size(0), -1)
Flatten(t) ==
    IF Len(t.shape) # 4 THEN Raised
    ELSE T(<<t.shape[1], t.shape[2] * t.shape[3] * t.shape[4]>>, t.v)

Linear_forward(m, t, w) ==
    IF Len(t.shape) # 2 \/ t.shape[2] # m.in_features THEN Raised
    ELSE T(<<t.shape[1], m.out_features>>, w * t.v)

\* a forward returning the signal of the head's primitive
forward_return_aux(logits, aux) == <<logits, aux>>

\* return x, torch.Tensor([0]): aux is the signal bound to `_` at the head
forward_return(logits, aux) == <<logits, 0>>

----------------------------------------------------------------------------
(* Initial states *)

NoCall == [v10 |-> 0, divisor |-> 0, new_v |-> None]

Unbuilt ==
    /\ input_channel = 0
    /\ output_channel = 0
    /\ layers = <<>>
    /\ row = 0
    /\ i = 0
    /\ conv = NoModule
    /\ avgpool = NoModule
    /\ classifier = NoModule
    /\ arg = NoTensor
    /\ x = NoTensor
    /\ xin = NoTensor
    /\ out = NoTensor
    /\ und = <<>>
    /\ blockRet = <<>>
    /\ ret = <<>>
    /\ k = 0
    /\ sig = 0
    /\ wt = 0

\* a call MobileNetV2(num_classes, is_qt, lq, fwlq) is about to run
Init ==
    /\ pc = "init"
    /\ num_classes \in NumClassesSet
    /\ is_qt \in BOOLEAN
    /\ lq \in BOOLEAN
    /\ fwlq \in BOOLEAN
    /\ Unbuilt
    /\ mk = NoCall

args == <<num_classes, is_qt, lq, fwlq>>
built == <<input_channel, output_channel, layers, row, i, conv, avgpool, classifier>>
call == <<arg, x, xin, out, und, blockRet, ret, k, sig, wt>>

----------------------------------------------------------------------------
(* MobileNetV2.__init__ *)

\* where the builder goes after the last block of row r
AfterRow(r) == IF r < Len(cfgs) THEN "row" ELSE "last"

\* building first layer
BuildStem ==
    /\ pc = "init"
    /\ LET ic == _make_divisible(32 * width_mult10, divisor_of_width, None)
       IN  /\ input_channel' = ic
           /\ layers' = <<conv_3x3_bn(3, ic, 2, is_qt, lq, fwlq)>>
    /\ row' = 1
    /\ pc' = IF Len(cfgs) > 0 THEN "row" ELSE "last"
    /\ UNCHANGED <<args, output_channel, i, conv, avgpool, classifier, call, mk>>

\* for t, c, n, s in self.cfgs: output_channel = _make_divisible(c * width_mult, ...)
RowStart ==
    /\ pc = "row"
    /\ output_channel' = _make_divisible(cfgs[row][2] * width_mult10, divisor_of_width, None)
    /\ i' = 0
    /\ IF cfgs[row][3] > 0
       THEN pc' = "block" /\ row' = row
       ELSE pc' = AfterRow(row) /\ row' = row + 1
    /\ UNCHANGED <<args, input_channel, layers, conv, avgpool, classifier, call, mk>>

\* one iteration of `for i in range(n)`
AppendBlock ==
    /\ pc = "block"
    /\ LET t == cfgs[row][1]
           n == cfgs[row][3]
           s == cfgs[row][4]
           stride == block_stride(s, i)
       IN  IF InvertedResidual_assert(input_channel, output_channel, stride, t, is_qt, lq, fwlq)
           THEN /\ layers' = Append(layers,
                        InvertedResidual(input_channel, output_channel, stride, t, is_qt, lq, fwlq))
                /\ input_channel' = output_channel
                /\ i' = i + 1
                /\ IF i + 1 < n
                   THEN pc' = "block" /\ row' = row
                   ELSE pc' = AfterRow(row) /\ row' = row + 1
           ELSE /\ pc' = "error"
                /\ UNCHANGED <<layers, input_channel, i, row>>
    /\ UNCHANGED <<args, output_channel, conv, avgpool, classifier, call, mk>>

\* building last several layers
BuildHead ==
    /\ pc = "last"
    /\ output_channel' = last_channel
    /\ conv' = conv_1x1_bn(input_channel, last_channel, lq, is_qt, fwlq)
    /\ avgpool' = AdaptiveAvgPool2d(1, 1)
    /\ classifier' = Linear(last_channel, num_classes)
    /\ pc' = "built"
    /\ UNCHANGED <<args, input_channel, layers, row, i, call, mk>>

----------------------------------------------------------------------------
(* MobileNetV2.forward *)

WSet == 0..MaxW

\* forward(x) is called on a built network with an input [N, 3, H, W]
ForwardCall ==
    /\ pc = "built"
    /\ \E n \in 1..MaxBatch, h \in SizeSet, w \in SizeSet :
          x' = T(<<n, 3, h, w>>, 1)
    /\ arg' = x'
    /\ sig' \in SigSet
    /\ wt' \in WSet
    /\ k' = 1
    /\ xin' = NoTensor
    /\ out' = NoTensor
    /\ und' = <<>>
    /\ blockRet' = <<>>
    /\ ret' = <<>>
    /\ pc' = "features"
    /\ UNCHANGED <<args, built, mk>>

AfterFeature(t) ==
    IF t = Raised THEN "error"
    ELSE IF k < Len(layers) THEN "features" ELSE "head"

\* x = self.features(x), the stem
FeaturesStem ==
    /\ pc = "features"
    /\ layers[k].type = "Sequential"
    /\ x' = Sequential_forward(layers[k].mods, x, wt)
    /\ xin' = x
    /\ k' = k + 1
    /\ pc' = AfterFeature(x')
    /\ UNCHANGED <<args, built, arg, out, und, blockRet, ret, sig, wt, mk>>

\* x = self.features(x), one inverted residual block
FeaturesBlock ==
    /\ pc = "features"
    /\ layers[k].type = "InvertedResidual"
    /\ blockRet' = InvertedResidual_forward(layers[k], x, wt, sig)
    /\ out' = InvertedResidual_body(layers[k], x, wt, sig).out
    /\ und' = InvertedResidual_body(layers[k], x, wt, sig).und
    /\ x' = blockRet'[1]
    /\ xin' = x
    /\ k' = k + 1
    /\ pc' = AfterFeature(x')
    /\ UNCHANGED <<args, built, arg, ret, sig, wt, mk>>

\* x, _ = self.conv[0](x); x = self.conv[1:](x)
HeadConv ==
    /\ pc = "head"
    /\ LET r == LQ_Conv2d_forward(conv.mods[1], x, wt, sig)
       IN  /\ x' = Sequential_forward(Tail(conv.mods), r[1], 1)
           /\ und' = <<r[2]>>
    /\ xin' = x
    /\ pc' = IF x' = Raised THEN "error" ELSE "pool"
    /\ UNCHANGED <<args, built, arg, out, blockRet, ret, k, sig, wt, mk>>

\* x = self.avgpool(x)
Pool ==
    /\ pc = "pool"
    /\ x' = AdaptiveAvgPool2d_forward(avgpool, x)
    /\ xin' = x
    /\ pc' = IF x' = Raised THEN "error" ELSE "view"
    /\ UNCHANGED <<args, built, arg, out, und, blockRet, ret, k, sig, wt, mk>>

\* x = x.view(x.size(0), -1)
View ==
    /\ pc = "view"
    /\ x' = Flatten(x)
    /\ xin' = x
    /\ pc' = IF x' = Raised THEN "error" ELSE "classifier"
    /\ UNCHANGED <<args, built, arg, out, und, blockRet, ret, k, sig, wt, mk>>

\* x = self.classifier(x); return x, torch.Tensor([0])
Classify ==
    /\ pc = "classifier"
    /\ x' = Linear_forward(classifier, x, wt)
    /\ xin' = x
    /\ IF x' = Raised
       THEN pc' = "error" /\ ret' = ret
       ELSE pc' = "done" /\ ret' = forward_return(x', und[1])
    /\ UNCHANGED <<args, built, arg, out, und, blockRet, k, sig, wt, mk>>

\* the caller has taken the result; the network is ready for another call
Return ==
    /\ pc = "done"
    /\ arg' = NoTensor
    /\ x' = NoTensor
    /\ xin' = NoTensor
    /\ out' = NoTensor
    /\ und' = <<>>
    /\ blockRet' = <<>>
    /\ ret' = <<>>
    /\ k' = 0
    /\ sig' = 0
    /\ wt' = 0
    /\ pc' = "built"
    /\ UNCHANGED <<args, built, mk>>

Next ==
    \/ BuildStem
    \/ RowStart
    \/ AppendBlock
    \/ BuildHead
    \/ ForwardCall
    \/ FeaturesStem
    \/ FeaturesBlock
    \/ HeadConv
    \/ Pool
    \/ View
    \/ Classify
    \/ Return

Spec == Init /\ [][Next]_vars

----------------------------------------------------------------------------
(* _make_divisible on its own: every target v = v10/10 and divisor 4 or 8 *)

InitRound ==
    /\ pc = "round"
    /\ num_classes = DefaultClasses
    /\ is_qt = FALSE
    /\ lq = FALSE
    /\ fwlq = FALSE
    /\ Unbuilt
    /\ \E v10 \in 1..MaxV10, d \in {4, 8} :
          mk = [v10 |-> v10, divisor |-> d, new_v |-> None]

RoundCall ==
    /\ pc = "round"
    /\ mk' = [mk EXCEPT !.new_v = _make_divisible(mk.v10, mk.divisor, None)]
    /\ pc' = "rounded"
    /\ UNCHANGED <<args, built, call>>

NextRound == RoundCall

SpecRound == InitRound /\ [][NextRound]_vars

----------------------------------------------------------------------------
(* Reading the built module tree *)

IsPrimitive(m) == m.type = "LQ_Conv2d"

Primitives(b) == SelectSeq(b.conv, IsPrimitive)

\* the 3x3 (depthwise) convolution of a block
Depthwise(b) == IF b.expand_ratio = 1 THEN b.conv[1] ELSE b.conv[4]

BlockIn(b) == b.conv[1].in_channels
BlockOut(b) == b.conv[Len(b.conv) - 1].out_channels
BlockStride(b) == Depthwise(b).stride

LayerIn(m) == IF m.type = "Sequential" THEN m.mods[1].in_channels ELSE BlockIn(m)
LayerOut(m) == IF m.type = "Sequential" THEN m.mods[1].out_channels ELSE BlockOut(m)
LayerStride(m) == IF m.type = "Sequential" THEN m.mods[1].stride ELSE BlockStride(m)

RECURSIVE BlocksBefore(_)
BlocksBefore(r) == IF r <= 1 THEN 0 ELSE cfgs[r - 1][3] + BlocksBefore(r - 1)

\* position in layers of block j (0-based) of row r; the stem is layers[1]
BlockIndex(r, j) == 1 + BlocksBefore(r) + j + 1

RowChannels(r) == _make_divisible(cfgs[r][2] * width_mult10, divisor_of_width, None)

Constructed == pc \in {"built", "features", "head", "pool", "view", "classifier", "done"}
InForward == pc \in {"features", "head", "pool", "view", "classifier", "done"}

\* a module of self.features has just been applied: xin went in, x came out
AfterLayer == pc \in {"features", "head"} /\ k >= 2
AfterBlock == AfterLayer /\ k >= 3

----------------------------------------------------------------------------
(* Properties *)

\* C1: for every positive v and divisor in {4, 8}, with min_value left at
\* its default, _make_divisible returns a positive multiple of divisor that
\* is >= 0.9 * v.
C1_RoundingInvariant ==
    pc = "rounded" =>
        /\ mk.new_v > 0
        /\ mk.new_v % mk.divisor = 0
        /\ 100 * mk.new_v >= 9 * mk.v10

\* the rounding went down by more than 10% and one divisor was added
C1_Witness ==
    /\ pc = "rounded"
    /\ mk.new_v >= 2 * mk.divisor
    /\ 100 * (mk.new_v - mk.divisor) < 9 * mk.v10

\* C2: the built network passes an input [N, 3, H, W] through stem, blocks,
\* head projection, pool, flatten and classifier without a shape error: each
\* layer expects the channel count the layer before it produces, the head
\* receives 320 channels and emits 1280, the classifier receives 1280, and
\* the logits have shape [N, num_classes].
C2_ShapeChain ==
    /\ pc # "error"
    /\ \A j \in 2..Len(layers) : LayerIn(layers[j]) = LayerOut(layers[j - 1])
    /\ Constructed =>
          /\ conv.mods[1].in_channels = LayerOut(layers[Len(layers)])
          /\ conv.mods[1].in_channels = 320
          /\ conv.mods[1].out_channels = 1280
          /\ classifier.in_features = 1280
          /\ classifier.out_features = num_classes
    /\ pc = "features" => x.shape[2] = LayerIn(layers[k])
    /\ pc = "head" => x.shape[2] = 320
    /\ pc = "pool" => x.shape[2] = 1280
    /\ pc = "view" => x.shape = <<arg.shape[1], 1280, 1, 1>>
    /\ pc = "classifier" => x.shape = <<arg.shape[1], 1280>>
    /\ pc = "done" => ret[1].shape = <<arg.shape[1], num_classes>>

C2_Witness ==
    /\ pc = "done"
    /\ arg.shape = <<1, 3, 224, 224>>
    /\ num_classes = DefaultClasses
    /\ ret[1].shape = <<1, DefaultClasses>>

\* C3: the auxiliary value returned by forward is the constant zero for
\* every input and flag combination, whatever signals the primitives
\* produced during the call.
C3_AuxZero == pc = "done" => ret[2] = 0

C3_Witness == pc = "done" /\ und[1] > 0 /\ ret[2] = 0

C5_Original ==
    AfterLayer =>
        IF LayerStride(layers[k - 1]) = 2
        THEN /\ x.shape[3] = xin.shape[3] \div 2
             /\ x.shape[4] = xin.shape[4] \div 2
        ELSE /\ x.shape[3] = xin.shape[3]
             /\ x.shape[4] = xin.shape[4]

\* C5 amended: with stride 2 the output size is floor((H - 1) / 2) + 1,
\* that is H / 2 for even H and (H + 1) / 2 for odd H; stride 1 keeps H.
C5_CeilHalf ==
    AfterLayer =>
        IF LayerStride(layers[k - 1]) = 2
        THEN /\ x.shape[3] = (xin.shape[3] - 1) \div 2 + 1
             /\ x.shape[4] = (xin.shape[4] - 1) \div 2 + 1
             /\ xin.shape[3] % 2 = 0 => x.shape[3] = xin.shape[3] \div 2
             /\ xin.shape[3] % 2 = 1 => x.shape[3] = (xin.shape[3] + 1) \div 2
        ELSE /\ x.shape[3] = xin.shape[3]
             /\ x.shape[4] = xin.shape[4]

\* the stem takes the odd size 3 to 2
C5_Witness ==
    /\ AfterLayer
    /\ LayerStride(layers[k - 1]) = 2
    /\ xin.shape[3] = 3
    /\ x.shape[3] = 2

\* C6: the stem is an ordinary unquantized 3x3 stride-2 convolution from 3
\* to the initial channel count, the same for every is_qt/lq/fwlq.
C6_StemPlain ==
    Len(layers) > 0 =>
        /\ layers[1].type = "Sequential"
        /\ layers[1].mods[1].type = "Conv2d"
        /\ DOMAIN layers[1].mods[1] \cap {"is_qt", "lq", "fwlq"} = {}
        /\ layers[1].mods[1].in_channels = 3
        /\ layers[1].mods[1].out_channels = 32
        /\ layers[1].mods[1].out_channels =
              _make_divisible(32 * width_mult10, divisor_of_width, None)
        /\ layers[1].mods[1].kernel_size = 3
        /\ layers[1].mods[1].stride = 2
        /\ layers[1].mods[1].padding = 1
        /\ layers[1].mods[1].groups = 1

C6_Witness ==
    /\ pc = "built"
    /\ is_qt /\ lq /\ fwlq
    /\ layers[1].mods[1].type = "Conv2d"

\* C7: for every row (t, c, n, s) of the stage table exactly n blocks are
\* created; the first has stride s and in_channels equal to the running
\* channel count left by the previous row (or the stem), the later ones
\* stride 1 and in_channels equal to the row's rounded output_channels; all
\* have out_channels equal to the rounded output_channels and expand_ratio t.
C7_BlockSequence ==
    /\ Constructed => Len(layers) = 1 + BlocksBefore(Len(cfgs) + 1)
    /\ \A r \in 1..Len(cfgs) : \A j \in 0..(cfgs[r][3] - 1) :
          BlockIndex(r, j) <= Len(layers) =>
             LET b == layers[BlockIndex(r, j)]
             IN  /\ b.type = "InvertedResidual"
                 /\ b.expand_ratio = cfgs[r][1]
                 /\ BlockOut(b) = RowChannels(r)
                 /\ BlockStride(b) = IF j = 0 THEN cfgs[r][4] ELSE 1
                 /\ BlockIn(b) = IF j > 0 THEN RowChannels(r)
                                 ELSE IF r = 1 THEN LayerOut(layers[1])
                                 ELSE RowChannels(r - 1)

C7_Witness ==
    /\ pc = "built"
    /\ Len(layers) = 18
    /\ BlockStride(layers[3]) = 2
    /\ BlockStride(layers[4]) = 1

\* C8: a block's forward result is input + out exactly when the block was
\* built with stride 1 and in_channels = out_channels, and out alone
\* otherwise; where the add is performed input and out have the same shape.
C8_Residual ==
    /\ \A j \in 2..Len(layers) :
          layers[j].identity <=>
             (BlockStride(layers[j]) = 1 /\ BlockIn(layers[j]) = BlockOut(layers[j]))
    /\ (AfterBlock \/ (pc = "error" /\ k >= 3)) =>
          LET b == layers[k - 1]
          IN  IF BlockStride(b) = 1 /\ BlockIn(b) = BlockOut(b)
              THEN /\ xin.shape = out.shape
                   /\ x = T(xin.shape, xin.v + out.v)
              ELSE x = out

C8_Witness ==
    /\ AfterBlock
    /\ layers[k - 1].identity
    /\ out.v > 0
    /\ xin.v > 0
    /\ x.v = xin.v + out.v

FlagsOf(m) == <<m.is_qt, m.lq, m.fwlq>>

C10_FlagsEverywhere ==
    /\ \A j \in 2..Len(layers) :
          /\ Len(Primitives(layers[j])) = IF layers[j].expand_ratio = 1 THEN 2 ELSE 3
          /\ \A p \in 1..Len(Primitives(layers[j])) :
                FlagsOf(Primitives(layers[j])[p]) = <<is_qt, lq, fwlq>>
    /\ Constructed => FlagsOf(conv.mods[1]) = <<is_qt, lq, fwlq>>

C10_FlagsUniform ==
    /\ []C10_FlagsEverywhere
    /\ [][InForward => UNCHANGED <<args, layers, conv>>]_vars

C10_Witness ==
    /\ pc = "done"
    /\ is_qt /\ ~lq /\ fwlq
    /\ FlagsOf(conv.mods[1]) = <<TRUE, FALSE, TRUE>>
    /\ FlagsOf(layers[18].conv[7]) = <<TRUE, FALSE, TRUE>>

====
